---- MODULE Spec2Model ----
(***************************************************************************)
(* A model of package tracerr: errors that carry a stack trace, the        *)
(* computation of the source window, the cache of source files and the     *)
(* rendering of an error with its source fragments.                        *)
(*                                                                         *)
(* Strings are modelled as sequences of tokens: a token is a piece of     *)
(* literal text, an integer printed by %d, or a value printed by %s.       *)
(* The empty string is the empty sequence.  File contents are sequences of *)
(* characters, so that strings.Split is computed and not assumed.          *)
(***************************************************************************)
EXTENDS Integers, Sequences, FiniteSets

VARIABLES
    DefaultPrintStackMaxDepth, \* package variable, maximum number of captured frames
    DefaultLinesBefore,        \* package variable, lines shown before the traced line
    DefaultLinesAfter,         \* package variable, lines shown after the traced line
    e,                         \* the error value the client holds
    allocated,                 \* number of errorData values allocated so far
    last,                      \* record of the last operation on errors
    nums,                      \* the lineSpec given to calcRows / sprint
    rows,                      \* the result of calcRows
    cache,                     \* package variable cache: path -> lines
    disk,                      \* the file system: path -> content or NoFile
    mutex,                     \* package variable mutex (sync.RWMutex)
    pc,                        \* position of each goroutine inside readLines
    loc,                       \* locals of each goroutine's readLines call
    calls,                     \* number of readLines calls begun so far
    rin,                       \* arguments of sprint
    rout,                      \* result of sprint
    phase                      \* position of the single-threaded drivers

vars == <<DefaultPrintStackMaxDepth, DefaultLinesBefore, DefaultLinesAfter, e,
          allocated, last, nums, rows, cache, disk, mutex, pc, loc, calls,
          rin, rout, phase>>

errVars == <<DefaultPrintStackMaxDepth, e, allocated, last>>
rowVars == <<DefaultLinesBefore, DefaultLinesAfter, nums, rows>>
cacheVars == <<cache, disk, mutex, pc, loc, calls>>
renderVars == <<rin, rout>>

(***************************************************************************)
(* Bounds of the model.                                                    *)
(***************************************************************************)
MaxAlloc == 2      \* errorData values allocated in one behaviour
MaxStack == 6      \* deepest call stack seen by runtime.Caller
MaxSkip == 3       \* largest explicit skip argument
MaxDepthArg == 3   \* largest depth written to DefaultPrintStackMaxDepth

(***************************************************************************)
(* Error values.  An error interface value is nil, a plain error (one that *)
(* does not implement Error) or a pointer to an errorData.  The id of an   *)
(* errorData stands for its address.                                       *)
(***************************************************************************)
Nil == [kind |-> "nil"]

PlainError(msg) == [kind |-> "plain", msg |-> msg]

errorData(id, err, frames) ==
    [kind |-> "errorData", id |-> id, err |-> err, frames |-> frames]

IsError(err) == err.kind = "errorData"

Messages == {"boom"}

PlainErrors == {PlainError("io")}

Frame(func, line, path) == [Func |-> func, Line |-> line, Path |-> path]

(* The frame of the call stack at distance k from trace itself.  Level 0   *)
(* is trace, level 1 the operation that called it, level 2 its caller.     *)
StackFrame(k) == Frame(k, 10 + k, "src.go")

(* runtime.Caller(skip) on a call stack of the given depth.                *)
Caller(skip, depth) ==
    IF skip >= 0 /\ skip < depth
        THEN [ok |-> TRUE, frame |-> StackFrame(skip)]
        ELSE [ok |-> FALSE, frame |-> StackFrame(0)]

(* The loop of trace.                                                      *)
RECURSIVE traceLoop(_, _, _, _)
traceLoop(frames, skip, catchMaxCall, depth) ==
    LET c == catchMaxCall - 1
        r == Caller(skip, depth)
    IN  IF ~r.ok THEN frames
        ELSE LET fs == Append(frames, r.frame)
             IN  IF c = 0 THEN fs ELSE traceLoop(fs, skip + 1, c, depth)

trace(id, err, skip, depth, maxDepth) ==
    errorData(id, err, traceLoop(<<>>, skip, maxDepth, depth))

(* Text.  A string is a sequence of tokens: literal text, a number printed *)
(* by %d, or a value printed by %s.  The empty string is <<>>.             *)
Lit(text) == [lit |-> text]

Num(n) == [num |-> n]

Str(x) == [str |-> x]

(* errorData.Error: the message of the underlying error; a nil err is a    *)
(* nil pointer dereference, which panics.                                  *)
RECURSIVE ErrorOf(_)
ErrorOf(err) ==
    IF err.kind = "nil" THEN [panicked |-> TRUE, text |-> <<>>]
    ELSE IF err.kind = "plain" THEN [panicked |-> FALSE, text |-> <<Lit(err.msg)>>]
    ELSE ErrorOf(err.err)

(* Outcome of an operation: the value returned, the number of errorData    *)
(* allocated and, when trace ran, what it was given.                       *)
NoCapture == [did |-> FALSE, skip |-> 0, depth |-> 0, maxDepth |-> 0]

Capture(skip, depth, maxDepth) ==
    [did |-> TRUE, skip |-> skip, depth |-> depth, maxDepth |-> maxDepth]

Outcome(ret, allocs, capture) == [ret |-> ret, allocs |-> allocs, capture |-> capture]

Traced(id, err, skip, depth, maxDepth) ==
    Outcome(trace(id, err, skip, depth, maxDepth), 1, Capture(skip, depth, maxDepth))

New(id, message, skip, depth, maxDepth) ==
    IF Len(skip) > 0
        THEN Traced(id, PlainError(message), skip[1], depth, maxDepth)
        ELSE Traced(id, PlainError(message), 2, depth, maxDepth)

Errorf(id, message, depth, maxDepth) ==
    Traced(id, PlainError(message), 2, depth, maxDepth)

(* Wrap without its test for nil: a nil error is traced like any other.    *)
WrapWithoutNilTest(id, err, skip, depth, maxDepth) ==
    IF IsError(err) THEN Outcome(err, 0, NoCapture)
    ELSE IF Len(skip) > 0 THEN Traced(id, err, skip[1], depth, maxDepth)
    ELSE Traced(id, err, 2, depth, maxDepth)

(* Wrap that consults the type assertion only when no skip is given.       *)
WrapRetracingOnSkip(id, err, skip, depth, maxDepth) ==
    IF err = Nil THEN Outcome(Nil, 0, NoCapture)
    ELSE IF Len(skip) > 0 THEN Traced(id, err, skip[1], depth, maxDepth)
    ELSE IF IsError(err) THEN Outcome(err, 0, NoCapture)
    ELSE Traced(id, err, 2, depth, maxDepth)

Wrap(id, err, skip, depth, maxDepth) ==
    IF err = Nil THEN Outcome(Nil, 0, NoCapture)
    ELSE IF IsError(err) THEN Outcome(err, 0, NoCapture)
    ELSE IF Len(skip) > 0 THEN Traced(id, err, skip[1], depth, maxDepth)
    ELSE Traced(id, err, 2, depth, maxDepth)

CustomError(id, err, frames) == Outcome(errorData(id, err, frames), 1, NoCapture)

Unwrap(err) ==
    IF err = Nil THEN Nil
    ELSE IF ~IsError(err) THEN err
    ELSE err.err

StackTrace(err) == IF ~IsError(err) THEN <<>> ELSE err.frames

SetStackMaxDepthValue(depth) == IF depth <= 0 THEN 5 ELSE depth


(***************************************************************************)
(* Operations on errors, as a client of the package calls them.  Each call *)
(* happens on a call stack of some depth, and takes its err argument among *)
(* nil, a plain error and the error the client holds.                      *)
(***************************************************************************)
SkipArgs == {<<>>} \cup {<<s>> : s \in 0..MaxSkip}

StackDepths == 3..MaxStack

DepthArgs == (-1)..MaxDepthArg

ErrArgs == {Nil} \cup PlainErrors \cup {e}

FrameArgs == {<<>>, <<StackFrame(2)>>, <<StackFrame(2), StackFrame(3)>>}

Done(op, arg, skip, out) ==
    /\ allocated + out.allocs <= MaxAlloc
    /\ allocated' = allocated + out.allocs
    /\ e' = out.ret
    /\ last' = [op |-> op, arg |-> arg, skip |-> skip,
                argFromWrap |-> (last.op = "Wrap" /\ arg = e), out |-> out]
    /\ UNCHANGED <<DefaultPrintStackMaxDepth, rowVars, cacheVars, renderVars, phase>>

idleRows == [before |-> 0, after |-> 0, withSource |-> FALSE]

idleRender == [err |-> Nil, nums |-> <<>>, colorized |-> FALSE]

ErrIdle ==
    /\ DefaultPrintStackMaxDepth = 5
    /\ e = Nil
    /\ allocated = 0
    /\ last = [op |-> "init", arg |-> Nil, skip |-> <<>>, argFromWrap |-> FALSE,
               out |-> Outcome(Nil, 0, NoCapture)]

RowIdle ==
    /\ DefaultLinesBefore = 3
    /\ DefaultLinesAfter = 2
    /\ nums = <<>>
    /\ rows = idleRows

CacheIdle ==
    /\ cache = <<>>
    /\ disk = <<>>
    /\ mutex = [readers |-> 0, writer |-> FALSE]
    /\ pc = <<>>
    /\ loc = <<>>
    /\ calls = 0

RenderIdle ==
    /\ rin = idleRender
    /\ rout = [panicked |-> FALSE, text |-> <<>>]

Init ==
    /\ ErrIdle
    /\ RowIdle
    /\ CacheIdle
    /\ RenderIdle
    /\ phase = "errors"

SetStackMaxDepth ==
    \E depth \in DepthArgs :
        /\ DefaultPrintStackMaxDepth' = SetStackMaxDepthValue(depth)
        /\ UNCHANGED <<e, allocated, last, rowVars, cacheVars, renderVars, phase>>

(* DefaultPrintStackMaxDepth is an exported variable: a client may assign  *)
(* it without going through SetStackMaxDepth.                              *)
AssignStackMaxDepth ==
    \E depth \in DepthArgs :
        /\ DefaultPrintStackMaxDepth' = depth
        /\ UNCHANGED <<e, allocated, last, rowVars, cacheVars, renderVars, phase>>

CallNew ==
    \E message \in Messages, skip \in SkipArgs, depth \in StackDepths :
        Done("New", Nil, skip,
             New(allocated + 1, message, skip, depth, DefaultPrintStackMaxDepth))

CallErrorf ==
    \E message \in Messages, depth \in StackDepths :
        Done("Errorf", Nil, <<>>,
             Errorf(allocated + 1, message, depth, DefaultPrintStackMaxDepth))

CallWrap ==
    \E err \in ErrArgs, skip \in SkipArgs, depth \in StackDepths :
        Done("Wrap", err, skip,
             Wrap(allocated + 1, err, skip, depth, DefaultPrintStackMaxDepth))

CallCustomError ==
    \E err \in ErrArgs, frames \in FrameArgs :
        Done("CustomError", err, <<>>, CustomError(allocated + 1, err, frames))

CallUnwrap ==
    Done("Unwrap", e, <<>>, Outcome(Unwrap(e), 0, NoCapture))

Next ==
    \/ SetStackMaxDepth
    \/ AssignStackMaxDepth
    \/ CallNew
    \/ CallErrorf
    \/ CallWrap
    \/ CallCustomError
    \/ CallUnwrap

Spec == Init /\ [][Next]_vars


(***************************************************************************)
(* Properties of the operations on errors.                                 *)
(***************************************************************************)

(* C1: Wrap of a nil error returns nil whatever the skip arguments are,    *)
(* allocates no errorData and captures no stack.                           *)
C1_WrapNilIsNil ==
    (last.op = "Wrap" /\ last.arg = Nil) =>
        /\ last.out.ret = Nil
        /\ e = Nil
        /\ last.out.allocs = 0
        /\ ~last.out.capture.did

C1_Witness ==
    /\ last.op = "Wrap"
    /\ last.arg = Nil
    /\ last.skip = <<MaxSkip>>
    /\ last.out.ret = Nil

(* C2: Wrap applied to the result of a Wrap of a non-nil error returns     *)
(* that very errorData (same address, same underlying error, same frames), *)
(* with no allocation and no capture, whatever skip either call was given. *)
C2_WrapIdempotent ==
    (last.op = "Wrap" /\ last.argFromWrap /\ last.arg # Nil) =>
        /\ IsError(last.arg)
        /\ last.out.ret = last.arg
        /\ last.out.ret.id = last.arg.id
        /\ last.out.ret.err = last.arg.err
        /\ last.out.ret.frames = last.arg.frames
        /\ last.out.allocs = 0
        /\ ~last.out.capture.did

C2_Witness ==
    /\ last.op = "Wrap"
    /\ last.argFromWrap
    /\ IsError(last.arg)
    /\ last.arg.err \in PlainErrors
    /\ Len(last.arg.frames) > 0
    /\ Len(last.skip) > 0
    /\ e = last.arg

(* C3: a capture with skip N under maximum depth D yields the frames of    *)
(* the stack from level N outward, in order, at most D of them: exactly D  *)
(* when more than D remain beyond the skip point, and fewer than D only    *)
(* when the stack ends.                                                    *)
Remaining(capture) ==
    IF capture.depth > capture.skip THEN capture.depth - capture.skip ELSE 0

C3_CaptureBounded ==
    last.out.capture.did =>
        LET c == last.out.capture
            fs == last.out.ret.frames
        IN  /\ Len(fs) <= c.maxDepth
            /\ (Remaining(c) > c.maxDepth => Len(fs) = c.maxDepth)
            /\ (Len(fs) < c.maxDepth => Len(fs) = Remaining(c))
            /\ \A i \in 1..Len(fs) : fs[i] = StackFrame(c.skip + i - 1)

(* The same for the depths SetStackMaxDepth can leave (D >= 1).            *)
C3_CaptureBoundedPositiveDepth ==
    (last.out.capture.did /\ last.out.capture.maxDepth >= 1) => C3_CaptureBounded

(* C7: an errorData the client can hold has a non-nil underlying error.    *)
C7_UnderlyingNeverNil ==
    IsError(e) => e.err # Nil


(***************************************************************************)
(* calcRows: the source window selected by a lineSpec.                     *)
(***************************************************************************)
MaxNums == 2         \* longest lineSpec
MaxLineArg == 8      \* largest number in a lineSpec
MinLineArg == 3      \* the smallest number in a lineSpec is -MinLineArg
MaxDefaultArg == 4   \* largest value assigned to DefaultLinesBefore / After

(* Integer division of Go: the quotient is truncated toward zero.          *)
GoDiv(a, b) == IF a >= 0 THEN a \div b ELSE -((-a) \div b)

Max0(n) == IF n < 0 THEN 0 ELSE n

Window(before, after, withSource) ==
    [before |-> before, after |-> after, withSource |-> withSource]

(* The final two tests of calcRows.                                        *)
Clamp(w) == Window(Max0(w.before), Max0(w.after), w.withSource)

(* calcRows whose single-number form gives two extra lines to "before".    *)
calcRowsExtraBefore(ns, linesBefore, linesAfter) ==
    Clamp(IF Len(ns) > 1 THEN Window(ns[1], ns[2], TRUE)
          ELSE IF Len(ns) = 1
              THEN IF ns[1] > 0
                       THEN LET after == GoDiv(ns[1] - 2, 2)
                            IN  Window(ns[1] - after - 1, after, TRUE)
                       ELSE Window(0, 0, FALSE)
          ELSE Window(linesBefore, linesAfter, TRUE))

(* calcRows without the final clamping of before and after.                *)
calcRowsUnclamped(ns, linesBefore, linesAfter) ==
    IF Len(ns) > 1 THEN Window(ns[1], ns[2], TRUE)
    ELSE IF Len(ns) = 1
        THEN IF ns[1] > 0
                 THEN LET after == GoDiv(ns[1] - 1, 2)
                      IN  Window(ns[1] - after - 1, after, TRUE)
                 ELSE Window(0, 0, FALSE)
    ELSE Window(linesBefore, linesAfter, TRUE)

calcRows(ns, linesBefore, linesAfter) ==
    Clamp(IF Len(ns) > 1 THEN Window(ns[1], ns[2], TRUE)
          ELSE IF Len(ns) = 1
              THEN IF ns[1] > 0
                       THEN LET after == GoDiv(ns[1] - 1, 2)
                            IN  Window(ns[1] - after - 1, after, TRUE)
                       ELSE Window(0, 0, FALSE)
          ELSE Window(linesBefore, linesAfter, TRUE))

RECURSIVE SeqsUpTo(_, _)
SeqsUpTo(S, n) ==
    IF n = 0 THEN {<<>>}
    ELSE LET shorter == SeqsUpTo(S, n - 1)
         IN  shorter \cup {Append(q, x) : q \in shorter, x \in S}

LineArgs == (-MinLineArg)..MaxLineArg

DefaultArgs == (-1)..MaxDefaultArg

RowsInit ==
    /\ ErrIdle
    /\ CacheIdle
    /\ RenderIdle
    /\ DefaultLinesBefore = 3
    /\ DefaultLinesAfter = 2
    /\ nums \in SeqsUpTo(LineArgs, MaxNums)
    /\ rows = idleRows
    /\ phase = "rows"

(* DefaultLinesBefore and DefaultLinesAfter are exported variables that a  *)
(* client assigns to configure the window.                                 *)
AssignDefaultLines ==
    /\ phase = "rows"
    /\ \E before \in DefaultArgs, after \in DefaultArgs :
        /\ DefaultLinesBefore' = before
        /\ DefaultLinesAfter' = after
    /\ UNCHANGED <<nums, rows, phase, errVars, cacheVars, renderVars>>

CallCalcRows ==
    /\ phase = "rows"
    /\ rows' = calcRows(nums, DefaultLinesBefore, DefaultLinesAfter)
    /\ phase' = "rowsDone"
    /\ UNCHANGED <<DefaultLinesBefore, DefaultLinesAfter, nums, errVars, cacheVars, renderVars>>

RowsNext ==
    \/ AssignDefaultLines
    \/ CallCalcRows

SpecRows == RowsInit /\ [][RowsNext]_vars

(* C4 as the specification states it: lineSpec 7 gives 4 lines before and  *)
(* 2 after; lineSpec 0 and lineSpec -3 suppress the source.                *)
C4_Window7Is4And2 ==
    phase = "rowsDone" =>
        /\ nums = <<7>> => rows = Window(4, 2, TRUE)
        /\ nums \in {<<0>>, <<-3>>} => rows = Window(0, 0, FALSE)

(* C4, amended: lineSpec 7 gives 3 lines before and 3 after with the       *)
(* source shown; lineSpec 0 and lineSpec -3 suppress the source.           *)
C4_Window7Is3And3 ==
    phase = "rowsDone" =>
        /\ nums = <<7>> => rows = Window(3, 3, TRUE)
        /\ nums \in {<<0>>, <<-3>>} => rows = Window(0, 0, FALSE)

C4_Witness ==
    /\ phase = "rowsDone"
    /\ nums = <<7>>
    /\ rows.before + rows.after + 1 = 7

(* The parts of C5 that do not depend on the configured defaults.          *)
C5_Common ==
    /\ rows.before >= 0
    /\ rows.after >= 0
    /\ (Len(nums) = 1 /\ nums[1] > 0) =>
           /\ rows.after = (nums[1] - 1) \div 2
           /\ rows.before = nums[1] - rows.after - 1
           /\ rows.before + rows.after + 1 = nums[1]
           /\ rows.before - rows.after \in {0, 1}
           /\ rows.withSource
    /\ Len(nums) = 2 =>
           /\ rows.before = Max0(nums[1])
           /\ rows.after = Max0(nums[2])
           /\ rows.withSource

(* C5 as stated: with no argument calcRows returns the configured defaults *)
(* as they are.                                                            *)
C5_DefaultsReturnedAsConfigured ==
    phase = "rowsDone" =>
        /\ C5_Common
        /\ Len(nums) = 0 =>
               /\ rows.before = DefaultLinesBefore
               /\ rows.after = DefaultLinesAfter
               /\ rows.withSource

(* C5, amended: with no argument calcRows returns the configured defaults, *)
(* each clamped to non-negative; before and after are never negative; one  *)
(* argument K > 0 gives after = floor((K-1)/2), before = K - after - 1;    *)
(* two arguments are each clamped to non-negative.                         *)
C5_WindowArithmetic ==
    phase = "rowsDone" =>
        /\ C5_Common
        /\ Len(nums) = 0 =>
               /\ rows.before = Max0(DefaultLinesBefore)
               /\ rows.after = Max0(DefaultLinesAfter)
               /\ rows.withSource

C5_Witness ==
    /\ phase = "rowsDone"
    /\ nums = <<>>
    /\ DefaultLinesBefore < 0
    /\ rows.before = 0
    /\ rows.after = DefaultLinesAfter
    /\ rows.after > 0


(***************************************************************************)
(* The cache of source files.  readLines is modelled step by step, each    *)
(* goroutine holding its own locals, so that calls interleave at every     *)
(* lock operation and at the file read.                                    *)
(***************************************************************************)
NumGoroutines == 2   \* goroutines calling readLines
MaxCalls == 3        \* calls of readLines in one behaviour
MaxCachedLen == 1    \* longest content of a file read through the cache

Goroutines == 1..NumGoroutines

Paths == {"p", "q"}

FileChars == {"a", "\n"}

NoFile == [exists |-> FALSE, data |-> <<>>]

File(data) == [exists |-> TRUE, data |-> data]

FileStates(n) == {NoFile} \cup {File(d) : d \in SeqsUpTo(FileChars, n)}

(* strings.Split(s, "\n"): the pieces of s between newlines, in order; a   *)
(* string with k newlines has k + 1 pieces.                                *)
RECURSIVE SplitFrom(_, _, _)
SplitFrom(s, i, piece) ==
    IF i > Len(s) THEN <<piece>>
    ELSE IF s[i] = "\n" THEN <<piece>> \o SplitFrom(s, i + 1, <<>>)
    ELSE SplitFrom(s, i + 1, Append(piece, s[i]))

Split(s) == SplitFrom(s, 1, <<>>)

NoEntry == [ok |-> FALSE, lines |-> <<>>]

Entry(lines) == [ok |-> TRUE, lines |-> lines]

emptyCache == [p \in Paths |-> NoEntry]

freeMutex == [readers |-> 0, writer |-> FALSE]

(* Locals of one call: its argument, the results of the map lookup, what   *)
(* it returns, and two counters kept for the properties: the number of    *)
(* file reads the call made and whether the cache held the path when the   *)
(* call began.                                                             *)
Locals(path, primed) ==
    [path |-> path, ok |-> FALSE, lines |-> <<>>, ret |-> <<>>,
     failed |-> FALSE, reads |-> 0, primed |-> primed]

CacheInit ==
    /\ ErrIdle
    /\ RowIdle
    /\ RenderIdle
    /\ cache = emptyCache
    /\ disk \in [Paths -> FileStates(MaxCachedLen)]
    /\ mutex = freeMutex
    /\ pc = [g \in Goroutines |-> "idle"]
    /\ loc = [g \in Goroutines |-> Locals("p", FALSE)]
    /\ calls = 0
    /\ phase = "cache"

(* A goroutine calls readLines(path).                                      *)
Begin(g) ==
    /\ pc[g] \in {"idle", "returned"}
    /\ calls < MaxCalls
    /\ \E path \in Paths :
        loc' = [loc EXCEPT ![g] = Locals(path, cache[path].ok)]
    /\ calls' = calls + 1
    /\ pc' = [pc EXCEPT ![g] = "RLock"]
    /\ UNCHANGED <<cache, disk, mutex, errVars, rowVars, renderVars, phase>>

(* mutex.RLock()                                                           *)
RLock(g) ==
    /\ pc[g] = "RLock"
    /\ ~mutex.writer
    /\ mutex' = [mutex EXCEPT !.readers = @ + 1]
    /\ pc' = [pc EXCEPT ![g] = "lookup"]
    /\ UNCHANGED <<cache, disk, loc, calls, errVars, rowVars, renderVars, phase>>

(* lines, ok := cache[path]                                                *)
Lookup(g) ==
    /\ pc[g] = "lookup"
    /\ loc' = [loc EXCEPT ![g].ok = cache[loc[g].path].ok,
                          ![g].lines = cache[loc[g].path].lines]
    /\ pc' = [pc EXCEPT ![g] = "RUnlock"]
    /\ UNCHANGED <<cache, disk, mutex, calls, errVars, rowVars, renderVars, phase>>

(* readLines that does not return on a hit and reads the file again.       *)
RUnlockIgnoringHit(g) ==
    /\ pc[g] = "RUnlock"
    /\ mutex' = [mutex EXCEPT !.readers = @ - 1]
    /\ loc' = loc
    /\ pc' = [pc EXCEPT ![g] = "ReadFile"]
    /\ UNCHANGED <<cache, disk, calls, errVars, rowVars, renderVars, phase>>

(* mutex.RUnlock(); if ok { return lines, nil }                            *)
RUnlock(g) ==
    /\ pc[g] = "RUnlock"
    /\ mutex' = [mutex EXCEPT !.readers = @ - 1]
    /\ IF loc[g].ok
           THEN /\ loc' = [loc EXCEPT ![g].ret = loc[g].lines]
                /\ pc' = [pc EXCEPT ![g] = "returned"]
           ELSE /\ loc' = loc
                /\ pc' = [pc EXCEPT ![g] = "ReadFile"]
    /\ UNCHANGED <<cache, disk, calls, errVars, rowVars, renderVars, phase>>

(* b, err := ioutil.ReadFile(path); on an error return it; otherwise       *)
(* lines = strings.Split(string(b), "\n")                                  *)
ReadFile(g) ==
    /\ pc[g] = "ReadFile"
    /\ IF disk[loc[g].path].exists
           THEN /\ loc' = [loc EXCEPT ![g].lines = Split(disk[loc[g].path].data),
                                      ![g].reads = @ + 1]
                /\ pc' = [pc EXCEPT ![g] = "Lock"]
           ELSE /\ loc' = [loc EXCEPT ![g].failed = TRUE, ![g].reads = @ + 1]
                /\ pc' = [pc EXCEPT ![g] = "returned"]
    /\ UNCHANGED <<cache, disk, mutex, calls, errVars, rowVars, renderVars, phase>>

(* mutex.Lock()                                                            *)
Lock(g) ==
    /\ pc[g] = "Lock"
    /\ ~mutex.writer
    /\ mutex.readers = 0
    /\ mutex' = [mutex EXCEPT !.writer = TRUE]
    /\ pc' = [pc EXCEPT ![g] = "store"]
    /\ UNCHANGED <<cache, disk, loc, calls, errVars, rowVars, renderVars, phase>>

(* cache[path] = lines                                                     *)
Store(g) ==
    /\ pc[g] = "store"
    /\ cache' = [cache EXCEPT ![loc[g].path] = Entry(loc[g].lines)]
    /\ pc' = [pc EXCEPT ![g] = "Unlock"]
    /\ UNCHANGED <<disk, mutex, loc, calls, errVars, rowVars, renderVars, phase>>

(* return lines, nil, and the deferred mutex.Unlock()                      *)
Unlock(g) ==
    /\ pc[g] = "Unlock"
    /\ mutex' = [mutex EXCEPT !.writer = FALSE]
    /\ loc' = [loc EXCEPT ![g].ret = loc[g].lines]
    /\ pc' = [pc EXCEPT ![g] = "returned"]
    /\ UNCHANGED <<cache, disk, calls, errVars, rowVars, renderVars, phase>>

readLinesStep(g) ==
    \/ Begin(g)
    \/ RLock(g)
    \/ Lookup(g)
    \/ RUnlock(g)
    \/ ReadFile(g)
    \/ Lock(g)
    \/ Store(g)
    \/ Unlock(g)

(* Another process writes or removes a file.                               *)
FileChanges ==
    /\ \E path \in Paths, f \in FileStates(MaxCachedLen) :
        /\ disk[path] # f
        /\ disk' = [disk EXCEPT ![path] = f]
    /\ UNCHANGED <<cache, mutex, pc, loc, calls, errVars, rowVars, renderVars, phase>>

StableNext == \E g \in Goroutines : readLinesStep(g)

CacheNext ==
    \/ \E g \in Goroutines : readLinesStep(g)
    \/ FileChanges

(* The cache while no file changes, and the cache while files change.      *)
SpecStable == CacheInit /\ [][StableNext]_vars

SpecCache == CacheInit /\ [][CacheNext]_vars


(* C8: while the file does not change, every readLines of a readable path  *)
(* returns the lines of the file, also when two calls miss concurrently;   *)
(* once a call has returned the cache holds the entry for the path with    *)
(* those lines, and a call begun when the cache held the path returns the  *)
(* cached lines without reading the file.                                  *)
C8_ConcurrentReadsAgree ==
    \A g \in Goroutines :
        (pc[g] = "returned" /\ disk[loc[g].path].exists) =>
            LET path == loc[g].path
                true == Split(disk[path].data)
            IN  /\ ~loc[g].failed
                /\ loc[g].ret = true
                /\ Len(true) = Cardinality({i \in 1..Len(disk[path].data) :
                                               disk[path].data[i] = "\n"}) + 1
                /\ cache[path] = Entry(true)
                /\ loc[g].primed => (loc[g].reads = 0 /\ loc[g].ret = cache[path].lines)

C8_Witness ==
    \E g, h \in Goroutines :
        /\ g # h
        /\ pc[g] = "returned" /\ pc[h] = "returned"
        /\ calls = 2
        /\ loc[g].path = loc[h].path
        /\ ~loc[g].primed /\ ~loc[h].primed
        /\ loc[g].reads = 1 /\ loc[h].reads = 1
        /\ Len(loc[g].ret) > 1
        /\ loc[g].ret = loc[h].ret
        /\ cache[loc[g].path] = Entry(loc[g].ret)

(* C10: an entry of the cache, once present, is never replaced, changed or *)
(* removed by a later step.                                                *)
C10_EntryNeverReplaced ==
    [][\A p \in Paths : cache[p].ok => cache'[p] = cache[p]]_vars


(***************************************************************************)
(* Rendering: sprint and sourceRows.  Rendering runs in one goroutine, so  *)
(* each readLines it makes is one step.                                    *)
(***************************************************************************)
MaxFileLen == 3     \* longest content of a rendered file
MaxFrames == 2      \* longest stack trace rendered
MaxLine == 4        \* largest line number of a rendered frame
MaxWindowArg == 2   \* largest number in the lineSpec of a rendering

(* readLines run to completion: the lines or the failure, and the cache    *)
(* it leaves.                                                              *)
readLines(c, d, path) ==
    IF c[path].ok THEN [failed |-> FALSE, lines |-> c[path].lines, cache |-> c]
    ELSE IF ~d[path].exists THEN [failed |-> TRUE, lines |-> <<>>, cache |-> c]
    ELSE LET lines == Split(d[path].data)
         IN  [failed |-> FALSE, lines |-> lines,
              cache |-> [c EXCEPT ![path] = Entry(lines)]]

(* Errorf("tracerr: file %s not found", path).Error()                      *)
NotFound(path) == <<Lit("tracerr: file "), Str(path), Lit(" not found")>>

(* Sprintf("tracerr: too few lines, got %d, want %d", got, want)           *)
TooFew(got, want) ==
    <<Lit("tracerr: too few lines, got "), Num(got), Lit(", want "), Num(want)>>

(* Sprintf("%d\t%s", n, line)                                              *)
SourceRow(n, line) == <<Num(n), Lit("\t"), Str(line)>>

(* Frame.String: Sprintf("%s:%d %s()", f.Path, f.Line, f.Func)             *)
FrameString(f) ==
    <<Str(f.Path), Lit(":"), Num(f.Line), Lit(" "), Str(f.Func), Lit("()")>>

(* The loop of sourceRows over the 0-based indices i..end.  In the         *)
(* colorized variant the message of a line other than the traced one is    *)
(* left at its zero value, the empty string.                               *)
RECURSIVE sourceLoop(_, _, _, _, _, _)
sourceLoop(rs, i, end, lines, frame, colorized) ==
    IF i > end THEN rs
    ELSE IF i < 0 \/ i >= Len(lines)
        THEN sourceLoop(rs, i + 1, end, lines, frame, colorized)
    ELSE LET line == lines[i + 1]
             message == IF i = frame.Line - 1 THEN SourceRow(i + 1, line)
                        ELSE IF colorized THEN <<>>
                        ELSE SourceRow(i + 1, line)
         IN  sourceLoop(Append(rs, message), i + 1, end, lines, frame, colorized)

sourceRows(rs, frame, before, after, colorized, c, d) ==
    LET r == readLines(c, d, frame.Path)
    IN  IF r.failed
            THEN [rows |-> rs \o <<NotFound(frame.Path), <<>>>>, cache |-> r.cache]
        ELSE IF Len(r.lines) < frame.Line
            THEN [rows |-> rs \o <<TooFew(Len(r.lines), frame.Line), <<>>>>,
                  cache |-> r.cache]
        ELSE LET current == frame.Line - 1
                 start == current - before
                 end == current + after
             IN  [rows |-> Append(sourceLoop(rs, start, end, r.lines, frame, colorized),
                                  <<>>),
                  cache |-> r.cache]

(* The loop of sprint over the frames from the k-th on.                    *)
RECURSIVE frameLoop(_, _, _, _, _, _, _)
frameLoop(acc, frames, k, w, colorized, c, d) ==
    IF k > Len(frames) THEN [rows |-> acc, cache |-> c]
    ELSE LET located == Append(acc, FrameString(frames[k]))
         IN  IF w.withSource
                 THEN LET r == sourceRows(located, frames[k], w.before, w.after,
                                          colorized, c, d)
                      IN  frameLoop(r.rows, frames, k + 1, w, colorized, r.cache, d)
                 ELSE frameLoop(located, frames, k + 1, w, colorized, c, d)

(* strings.Join(rows, "\n")                                                *)
RECURSIVE Join(_)
Join(rs) ==
    IF Len(rs) = 0 THEN <<>>
    ELSE IF Len(rs) = 1 THEN rs[1]
    ELSE rs[1] \o <<Lit("\n")>> \o Join(Tail(rs))

(* sprint: the text returned, or the panic, and the cache it leaves.       *)
sprint(err, ns, colorized, linesBefore, linesAfter, c, d) ==
    IF err = Nil THEN [panicked |-> FALSE, text |-> <<>>, cache |-> c]
    ELSE IF ~IsError(err)
        THEN [panicked |-> FALSE, text |-> <<Lit(err.msg)>>, cache |-> c]
    ELSE LET w == calcRows(ns, linesBefore, linesAfter)
             frames == StackTrace(err)
             msg == ErrorOf(err)
         IN  IF msg.panicked THEN [panicked |-> TRUE, text |-> <<>>, cache |-> c]
             ELSE LET head == IF w.withSource THEN <<msg.text, <<>>>> ELSE <<msg.text>>
                      r == frameLoop(head, frames, 1, w, colorized, c, d)
                  IN  [panicked |-> FALSE, text |-> Join(r.rows), cache |-> r.cache]

RenderFrames ==
    {Frame("f", l, "p") : l \in 0..MaxLine} \cup {Frame("g", 1, "q")}

RenderErrors ==
    {Nil} \cup PlainErrors \cup
    {errorData(1, u, fs) : u \in {Nil, PlainError("boom")},
                           fs \in SeqsUpTo(RenderFrames, MaxFrames)}

(* The file "q" does not exist; the file "p" holds any content or is       *)
(* missing.                                                                *)
RenderInit ==
    /\ ErrIdle
    /\ RowIdle
    /\ cache = emptyCache
    /\ disk \in {[p \in Paths |-> IF p = "p" THEN f ELSE NoFile] :
                    f \in FileStates(MaxFileLen)}
    /\ mutex = freeMutex
    /\ pc = [g \in Goroutines |-> "idle"]
    /\ loc = [g \in Goroutines |-> Locals("p", FALSE)]
    /\ calls = 0
    /\ rin \in [err : RenderErrors,
                nums : SeqsUpTo(0..MaxWindowArg, 2),
                colorized : BOOLEAN]
    /\ rout = [panicked |-> FALSE, text |-> <<>>]
    /\ phase = "render"

(* SprintSource(err, nums...) or SprintSourceColor(err, nums...)           *)
CallSprint ==
    /\ phase = "render"
    /\ LET r == sprint(rin.err, rin.nums, rin.colorized,
                       DefaultLinesBefore, DefaultLinesAfter, cache, disk)
       IN  /\ rout' = [panicked |-> r.panicked, text |-> r.text]
           /\ cache' = r.cache
    /\ phase' = "rendered"
    /\ UNCHANGED <<errVars, rowVars, disk, mutex, pc, loc, calls, rin>>

RenderNext == CallSprint

SpecRender == RenderInit /\ [][RenderNext]_vars


(***************************************************************************)
(* Properties of rendering, stated on the text sprint returns.             *)
(***************************************************************************)

(* The rows of a text: its pieces between newlines.                        *)
RECURSIVE RowsFrom(_, _, _)
RowsFrom(text, i, row) ==
    IF i > Len(text) THEN <<row>>
    ELSE IF text[i] = Lit("\n") THEN <<row>> \o RowsFrom(text, i + 1, <<>>)
    ELSE RowsFrom(text, i + 1, Append(row, text[i]))

RowsOf(text) == RowsFrom(text, 1, <<>>)

RenderedWindow == calcRows(rin.nums, DefaultLinesBefore, DefaultLinesAfter)

RenderedWithSource ==
    /\ phase = "rendered"
    /\ IsError(rin.err)
    /\ RenderedWindow.withSource

LinesOnDisk(path) == Split(disk[path].data)

Unreadable(f) == ~disk[f.Path].exists

TooShort(f) == disk[f.Path].exists /\ Len(LinesOnDisk(f.Path)) < f.Line

Low(f) ==
    LET start == f.Line - 1 - RenderedWindow.before
    IN  IF start < 0 THEN 0 ELSE start

High(f) ==
    LET end == f.Line - 1 + RenderedWindow.after
        n == Len(LinesOnDisk(f.Path))
    IN  IF end > n - 1 THEN n - 1 ELSE end

(* Rows after the location row of a frame: a diagnostic and a blank row,   *)
(* or one row for each line of the window that exists and a blank row.     *)
BlockLen(f) ==
    IF Unreadable(f) \/ TooShort(f) THEN 2
    ELSE IF High(f) < Low(f) THEN 1
    ELSE High(f) - Low(f) + 2

(* The row holding the location of the k-th frame: the message and a blank *)
(* row come first.                                                         *)
RECURSIVE Pos(_, _)
Pos(frames, k) ==
    IF k = 1 THEN 3 ELSE Pos(frames, k - 1) + 1 + BlockLen(frames[k - 1])

SourceFaultsReported ==
    LET out == RowsOf(rout.text)
        frames == rin.err.frames
    IN  /\ ~rout.panicked
        /\ rin.err.err.kind = "plain"
        /\ out[1] = <<Lit(rin.err.err.msg)>>
        /\ Len(out) = Pos(frames, Len(frames) + 1) - 1
        /\ \A k \in 1..Len(frames) :
            /\ out[Pos(frames, k)] = FrameString(frames[k])
            /\ Unreadable(frames[k]) =>
                   /\ out[Pos(frames, k) + 1] = NotFound(frames[k].Path)
                   /\ out[Pos(frames, k) + 2] = <<>>
            /\ TooShort(frames[k]) =>
                   /\ out[Pos(frames, k) + 1] =
                          TooFew(Len(LinesOnDisk(frames[k].Path)), frames[k].Line)
                   /\ out[Pos(frames, k) + 2] = <<>>

(* C6: a rendering with source display of any wrapper returns a text: it   *)
(* begins with the error message and holds the location row of every frame *)
(* in capture order; a frame whose file cannot be read is followed by the  *)
(* one diagnostic row naming the path, a frame whose line exceeds the      *)
(* file's line count by the one diagnostic row with both counts.           *)
C6_SourceFaultsNeverAbort ==
    RenderedWithSource => SourceFaultsReported

(* The same for the wrappers whose underlying error is not nil.            *)
C6_SourceFaultsReportedUnlessNilUnderlying ==
    (RenderedWithSource /\ rin.err.err # Nil) => SourceFaultsReported

C6_FaultsSeen ==
    /\ RenderedWithSource
    /\ rin.err.err # Nil
    /\ Len(rin.err.frames) = 2
    /\ Unreadable(rin.err.frames[1])
    /\ TooShort(rin.err.frames[2])

SourceRowsExact ==
    LET out == RowsOf(rout.text)
        frames == rin.err.frames
    IN  \A k \in 1..Len(frames) :
            LET f == frames[k]
                lines == LinesOnDisk(f.Path)
            IN  (disk[f.Path].exists /\ 1 <= f.Line /\ f.Line <= Len(lines)) =>
                    /\ \A i \in Low(f)..High(f) :
                           out[Pos(frames, k) + 1 + (i - Low(f))] =
                               SourceRow(i + 1, lines[i + 1])
                    /\ out[Pos(frames, k) + BlockLen(f)] = <<>>
                    /\ BlockLen(f) = High(f) - Low(f) + 2

(* C9: in the plain and in the colorized variant, a frame with a readable  *)
(* file and a line number inside it is followed by one row for each line   *)
(* of the window that exists, ascending, each "number, tab, text", and     *)
(* then one blank row.                                                     *)
C9_SourceRowsBothVariants ==
    (RenderedWithSource /\ ~rout.panicked) => SourceRowsExact

(* The same for the plain variant alone.                                   *)
C9_SourceRowsPlainVariant ==
    (RenderedWithSource /\ ~rout.panicked /\ ~rin.colorized) => SourceRowsExact

C9_WindowSeen ==
    /\ RenderedWithSource
    /\ ~rout.panicked
    /\ ~rin.colorized
    /\ Len(rin.err.frames) = 2
    /\ rin.err.frames[2].Path = "p"
    /\ Len(LinesOnDisk("p")) = 3
    /\ rin.err.frames[2].Line = 2
    /\ RenderedWindow.before = 1
    /\ RenderedWindow.after = 0

====
